---------------------------- MODULE Spec2Model ----------------------------
(***************************************************************************)
(* Model of src/StatsJobMC.py: the statistics job of AutoMLPipe-MC.  One   *)
(* run of job() is a state machine whose steps are the calls job() makes.  *)
(* Floating point numbers are modelled as exact rationals <<n, d>> in      *)
(* lowest terms with d > 0, so two numbers are equal exactly when their    *)
(* pairs are equal.                                                        *)
(***************************************************************************)
EXTENDS Integers, Sequences, FiniteSets, TLC

(***************************************************************************)
(* Bounds of the model.                                                    *)
(***************************************************************************)
\* number of features of the original dataset (columns of OriginalHeaders.csv)
NumFeatures == 3
\* largest number of CV partitions a run is given
MaxFolds == 3
\* largest cell of a confusion matrix
MaxCount == 2

(***************************************************************************)
(* Rational arithmetic.                                                    *)
(***************************************************************************)
Abs(n) == IF n < 0 THEN -n ELSE n

RECURSIVE GCD(_, _)
GCD(a, b) == IF b = 0 THEN a ELSE GCD(b, a % b)

\* the rational n/d (d # 0) in lowest terms with a positive denominator
Rat(n, d) ==
    LET s == IF d < 0 THEN -1 ELSE 1
        g == GCD(Abs(n), Abs(d))
    IN  <<(s * n) \div g, (s * d) \div g>>

Zero == <<0, 1>>
One == <<1, 1>>
Half == <<1, 2>>

\* sums and comparisons go through the least common denominator, products
\* cancel crosswise first, so that no intermediate number is larger than the
\* result needs
RAdd(x, y) ==
    LET g == GCD(x[2], y[2])
    IN  Rat(x[1] * (y[2] \div g) + y[1] * (x[2] \div g), x[2] * (y[2] \div g))
RNeg(x) == <<-x[1], x[2]>>
RSub(x, y) == RAdd(x, RNeg(y))
RMul(x, y) ==
    LET g1 == GCD(Abs(x[1]), y[2])
        g2 == GCD(Abs(y[1]), x[2])
    IN  IF x[1] = 0 \/ y[1] = 0 THEN <<0, 1>>
        ELSE <<(x[1] \div g1) * (y[1] \div g2), (x[2] \div g2) * (y[2] \div g1)>>
\* x / y, for y # 0
RDiv(x, y) == RMul(x, IF y[1] < 0 THEN <<-y[2], -y[1]>> ELSE <<y[2], y[1]>>)
RLe(x, y) ==
    LET g == GCD(x[2], y[2])
    IN  x[1] * (y[2] \div g) <= y[1] * (x[2] \div g)
RLt(x, y) ==
    LET g == GCD(x[2], y[2])
    IN  x[1] * (y[2] \div g) < y[1] * (x[2] \div g)

Range(s) == {s[i] : i \in DOMAIN s}

\* Python's builtin sum over a list of numbers
RECURSIVE Sum(_)
Sum(s) == IF s = <<>> THEN Zero ELSE RAdd(Head(s), Sum(Tail(s)))

\* Python's builtin max over a non-empty list of numbers
Max(s) == CHOOSE x \in Range(s) : \A y \in Range(s) : RLe(y, x)

\* statistics.mean / DataFrame.mean of a non-empty list
Mean(s) == RDiv(Sum(s), <<Len(s), 1>>)

\* list.index(x): the first position (from 1) of x in s, for x in s
IndexOf(s, x) == CHOOSE i \in DOMAIN s : s[i] = x /\ \A j \in 1..(i - 1) : s[j] # x

\* list.remove(x): s without its first occurrence of x, for x in s
Remove(s, x) ==
    LET i == IndexOf(s, x)
    IN  [j \in 1..(Len(s) - 1) |-> IF j < i THEN s[j] ELSE s[j + 1]]

\* all orders in which the members of a finite set can be listed
Orders(S) ==
    {f \in [1..Cardinality(S) -> S] : \A i, j \in 1..Cardinality(S) : f[i] = f[j] => i = j}


(***************************************************************************)
(* Tables of job() and preparation().                                      *)
(***************************************************************************)
possible_algos ==
    <<"Naive Bayes", "Decision Tree", "Random Forest", "XGB", "SVM", "ANN", "K Neighbors">>

abbrev ==
    [a \in Range(possible_algos) |->
        CASE a = "Naive Bayes" -> "NB"
          [] a = "Decision Tree" -> "DT"
          [] a = "Random Forest" -> "RF"
          [] a = "XGB" -> "XGB"
          [] a = "SVM" -> "SVM"
          [] a = "ANN" -> "ANN"
          [] OTHER -> "KN"]

\* metric_term_dict that also takes the job's own metric names as keys
metric_term_dict_Lenient ==
    [m \in {"balanced_accuracy", "confusion_matrix", "roc_auc", "matthews_corrcoef",
            "plot_confusion_matrix", "Balanced Accuracy", "Confusion Matrix",
            "ROC_AUC", "Matthews Correlation Coefficient", "Confusion Matrix Plot"} |->
        CASE m \in {"balanced_accuracy", "Balanced Accuracy"} -> "Balanced Accuracy"
          [] m \in {"confusion_matrix", "Confusion Matrix"} -> "Confusion Matrix"
          [] m \in {"roc_auc", "ROC_AUC"} -> "ROC_AUC"
          [] m \in {"matthews_corrcoef", "Matthews Correlation Coefficient"} ->
                 "Matthews Correlation Coefficient"
          [] OTHER -> "Confusion Matrix Plot"]

\* metric_term_dict: scikit-learn metric name -> the job's metric name
metric_term_dict ==
    [m \in {"balanced_accuracy", "confusion_matrix", "roc_auc", "matthews_corrcoef",
            "plot_confusion_matrix"} |->
        CASE m = "balanced_accuracy" -> "Balanced Accuracy"
          [] m = "confusion_matrix" -> "Confusion Matrix"
          [] m = "roc_auc" -> "ROC_AUC"
          [] m = "matthews_corrcoef" -> "Matthews Correlation Coefficient"
          [] OTHER -> "Confusion Matrix Plot"]

\* the keys of the results dictionary of primaryStats, in insertion order
metrics ==
    <<"Balanced Accuracy", "Aggregate Average Precision", "ROC_AUC",
      "Matthews Correlation Coefficient">>

\* the columns of exploratory/OriginalHeaders.csv
FeatureNames == [i \in 1..NumFeatures |-> "f" \o ToString(i)]

class_label == "Class"

(***************************************************************************)
(* State.                                                                  *)
(***************************************************************************)
VARIABLES
    \* arguments of job()
    encoded_algos, cv_partitions, top_results, instance_label, sig_cutoff,
    plot_metric_boxplots, plot_FI_box, primary_metric,
    \* files the earlier phases left on disk
    testHeaders,        \* fold -> columns of <data_name>_CV_<fold>_Test.csv
    pickled,            \* abbreviation -> fold -> [bac, conf, roc_auc, mcc, fi]
    \* answers of the scipy.stats routines for this run's samples
    kruskalP,           \* metric -> p-value of stats.kruskal
    pairwiseP,          \* metric -> p-value of stats.wilcoxon / stats.mannwhitneyu
    \* position in job()
    pc, error,
    \* locals of job() and preparation()
    algorithms, original_headers,
    \* locals of primaryStats()
    algIndex, cvCount, s_bac, s_aap, s_ras, s_mcc, FI_all, FI_ave,
    result_table, metric_dict,
    \* files the job writes
    written,            \* names of the files written so far
    fiCsv,              \* abbreviation -> [header, rows] of results/FI/<abbrev>_FI.csv
    meanCsv,            \* rows of Summary_performance_mean.csv
    \* significance testing
    kruskal_summary, wilcoxon_stats, mann_stats,
    \* locals of job() from prepFI() on
    fi_ave_list, fi_ave_norm_list, ave_metric_list, all_feature_list,
    non_zero_union_features, non_zero_union_indexes,
    featuresToViz, top_fi_ave_norm_list, all_feature_listToViz,
    fracLists, weightedLists, weights, weightedFracLists,
    bottoms             \* bottoms of the latest composite_FI_plot call

inputs ==
    <<encoded_algos, cv_partitions, top_results, instance_label, sig_cutoff,
      plot_metric_boxplots, plot_FI_box, primary_metric, testHeaders, pickled,
      kruskalP, pairwiseP>>

statsLocals == <<algIndex, cvCount, s_bac, s_aap, s_ras, s_mcc, FI_all, FI_ave>>

sigVars == <<kruskal_summary, wilcoxon_stats, mann_stats>>

prepVars ==
    <<fi_ave_list, fi_ave_norm_list, ave_metric_list, all_feature_list,
      non_zero_union_features, non_zero_union_indexes>>

vizVars ==
    <<featuresToViz, top_fi_ave_norm_list, all_feature_listToViz,
      fracLists, weightedLists, weights, weightedFracLists, bottoms>>

vars ==
    <<inputs, pc, error, algorithms, original_headers, statsLocals, result_table,
      metric_dict, written, fiCsv, meanCsv, sigVars, prepVars, vizVars>>

(***************************************************************************)
(* preparation() and decode().                                             *)
(***************************************************************************)
\* decode: index counts from 0, as in the source
decode(algs, encoded, possible, index) ==
    IF encoded[index + 1] = "1" THEN Append(algs, possible[index + 1]) ELSE algs

RECURSIVE decodeFrom(_, _, _)
decodeFrom(algs, encoded, index) ==
    IF index > 6 THEN algs
    ELSE decodeFrom(decode(algs, encoded, possible_algos, index), encoded, index + 1)

\* the algorithms list preparation() returns
preparation(encoded) == decodeFrom(<<>>, encoded, 0)

(***************************************************************************)
(* primaryStats(): one fold of one algorithm.                              *)
(***************************************************************************)
\* num_labeled: the loop of lines 155-157 adds conf[classNum][0] over the rows
NumLabeled(conf) == Sum([classNum \in 1..Len(conf) |-> <<conf[classNum][1], 1>>])

\* agg_avg_prec of lines 159-162, for num_labeled # 0
AggAvgPrec(conf) ==
    RDiv(Sum([classNum \in 1..Len(conf) |->
                 RDiv(<<conf[classNum][classNum], 1>>, NumLabeled(conf))]),
         <<Len(conf), 1>>)

\* headers of lines 174-177: the columns of the fold's test file without the
\* instance column (when the dataset has one) and without the class column
FoldHeaders(columns, instLabel, classLabel) ==
    LET h == IF instLabel # "None" THEN Remove(columns, instLabel) ELSE columns
    IN  Remove(h, classLabel)

\* ReconcileFI that fills the place of a feature the fold dropped with the
\* fold's first score
ReconcileFI_FillFirst(orig, headers, fi) ==
    [j \in 1..Len(orig) |->
        IF orig[j] \in Range(headers) THEN fi[IndexOf(headers, orig[j])]
        ELSE IF fi = <<>> THEN Zero ELSE fi[1]]

\* ReconcileFI by position: the fold's score at the feature's original index
ReconcileFI_ByPosition(orig, headers, fi) ==
    [j \in 1..Len(orig) |-> IF j <= Len(fi) THEN fi[j] ELSE Zero]

\* ReconcileFI without the lookup by name: the fold's scores in fold order
ReconcileFI_FoldOrder(orig, headers, fi) == [j \in 1..Len(headers) |-> fi[j]]

\* tempList of lines 172-186: the fold's FI scores over the original features
ReconcileFI(orig, headers, fi) ==
    [j \in 1..Len(orig) |->
        IF orig[j] \in Range(headers) THEN fi[IndexOf(headers, orig[j])] ELSE Zero]

\* FI_ave after the loop of lines 178-186 has added one fold's scores
AddFI(ave, orig, headers, fi) ==
    [j \in 1..Len(orig) |->
        IF orig[j] \in Range(headers) THEN RAdd(ave[j], fi[IndexOf(headers, orig[j])])
        ELSE ave[j]]

\* the results of a model without skill: every score 0
EmptyResults ==
    [bac |-> Zero, conf |-> <<<<1, 0>>, <<0, 1>>>>, roc_auc |-> Zero, mcc |-> Zero,
     fi |-> [p \in 1..NumFeatures |-> Zero]]

\* ReadPickle that takes a file that is not there for one with every score 0
ReadPickle_Default(ab, fold) ==
    IF fold + 1 \in DOMAIN pickled[ab] THEN <<pickled[ab][fold + 1]>>
    ELSE <<EmptyResults>>

\* lines 143-146: the results of <abbrev>_CV_<fold>_metrics in a list of one,
\* or the empty list when open() finds no such file
ReadPickle(ab, fold) ==
    IF fold + 1 \in DOMAIN pickled[ab] THEN <<pickled[ab][fold + 1]>> ELSE <<>>

\* line 174: the columns of <data_name>_CV_<fold>_Test.csv in a list of one, or
\* the empty list when pd.read_csv finds no such file
ReadHeader(fold) ==
    IF fold + 1 \in DOMAIN testHeaders THEN <<testHeaders[fold + 1]>> ELSE <<>>

(***************************************************************************)
(* The steps of job(), lines 35-50.                                        *)
(***************************************************************************)
\* lines 35-41: the metric name is translated, then preparation() runs
JobPreparation ==
    /\ pc = "start"
    /\ IF primary_metric \notin DOMAIN metric_term_dict
       THEN /\ pc' = "raised"
            /\ error' = "KeyError"
            /\ UNCHANGED <<algorithms, original_headers, written>>
       ELSE /\ pc' = "primaryStats"
            /\ error' = error
            /\ written' = written \cup {"training/results/"}
            /\ algorithms' = preparation(encoded_algos)
            /\ original_headers' = FeatureNames
    /\ UNCHANGED <<inputs, statsLocals, result_table, metric_dict, fiCsv, meanCsv,
                   sigVars, prepVars, vizVars>>

\* lines 141-194: one pass of the loop over the CV partitions; the first pass
\* of an algorithm starts from the fresh lists of lines 128-139
PrimaryStatsFold ==
    /\ pc = "primaryStats"
    /\ cvCount < cv_partitions
    /\ LET algorithm == algorithms[algIndex]
           file == ReadPickle(abbrev[algorithm], cvCount)
           columns == ReadHeader(cvCount)
           first == cvCount = 0
           ave0 == IF first THEN [j \in 1..Len(original_headers) |-> Zero] ELSE FI_ave
           all0 == IF first THEN <<>> ELSE FI_all
       IN  IF file = <<>>
           THEN \* open() of line 144 raises
                /\ pc' = "raised"
                /\ error' = "FileNotFoundError"
                /\ s_bac' = (IF first THEN <<>> ELSE s_bac)
                /\ s_aap' = (IF first THEN <<>> ELSE s_aap)
                /\ s_ras' = (IF first THEN <<>> ELSE s_ras)
                /\ s_mcc' = (IF first THEN <<>> ELSE s_mcc)
                /\ FI_ave' = ave0
                /\ FI_all' = all0
                /\ UNCHANGED <<written, cvCount>>
           ELSE LET results == file[1]
                IN  /\ s_bac' = Append(IF first THEN <<>> ELSE s_bac, results.bac)
                    /\ s_aap' = Append(IF first THEN <<>> ELSE s_aap,
                                       AggAvgPrec(results.conf))
                    /\ s_ras' = Append(IF first THEN <<>> ELSE s_ras, results.roc_auc)
                    /\ s_mcc' = Append(IF first THEN <<>> ELSE s_mcc, results.mcc)
                    /\ IF columns = <<>>
                       THEN \* pd.read_csv of line 174 raises
                            /\ pc' = "raised"
                            /\ error' = "FileNotFoundError"
                            /\ FI_ave' = ave0
                            /\ FI_all' = all0
                            /\ UNCHANGED <<written, cvCount>>
                       ELSE LET headers == FoldHeaders(columns[1], instance_label,
                                                       class_label)
                            IN  /\ FI_ave' = AddFI(ave0, original_headers, headers,
                                                   results.fi)
                                /\ FI_all' = Append(all0,
                                       ReconcileFI(original_headers, headers, results.fi))
                                /\ written' = written \cup
                                       {"training/results/" \o abbrev[algorithm] \o "_CV_"
                                           \o ToString(cvCount)
                                           \o "_ConfusionMatrixPlot.png"}
                                /\ cvCount' = cvCount + 1
                                /\ UNCHANGED <<pc, error>>
    /\ UNCHANGED <<inputs, algorithms, original_headers, algIndex,
                   result_table, metric_dict, fiCsv, meanCsv, sigVars, prepVars, vizVars>>

\* FI_ave of lines 204-205
AverageFI(ave, n) == [i \in 1..Len(ave) |-> RDiv(ave[i], <<n, 1>>)]

\* lines 196-217: the export that ends an algorithm's pass, and the return
\* once the last algorithm is done
PrimaryStatsAlgorithm ==
    /\ pc = "primaryStats"
    /\ cvCount = cv_partitions
    /\ LET algorithm == algorithms[algIndex]
           results == [m \in Range(metrics) |->
                          CASE m = "Balanced Accuracy" -> s_bac
                            [] m = "Aggregate Average Precision" -> s_aap
                            [] m = "ROC_AUC" -> s_ras
                            [] OTHER -> s_mcc]
       IN  /\ metric_dict' =
                  [a \in DOMAIN metric_dict \cup {algorithm} |->
                      IF a = algorithm THEN results ELSE metric_dict[a]]
           /\ FI_ave' = AverageFI(FI_ave, cv_partitions)
           /\ fiCsv' =
                  [f \in DOMAIN fiCsv \cup {abbrev[algorithm]} |->
                      IF f = abbrev[algorithm]
                      THEN [header |-> original_headers, rows |-> FI_all]
                      ELSE fiCsv[f]]
           /\ written' = written \cup
                  {"training/results/" \o abbrev[algorithm] \o "_performance.csv",
                   "training/results/FI/",
                   "training/results/FI/" \o abbrev[algorithm] \o "_FI.csv"}
           /\ result_table' =
                  Append(result_table, [algorithm |-> algorithm, auc |-> Mean(s_ras)])
    /\ IF algIndex < Len(algorithms)
       THEN /\ algIndex' = algIndex + 1
            /\ cvCount' = 0
            /\ pc' = pc
       ELSE /\ pc' = "doPlotMeanAUC"
            /\ UNCHANGED <<algIndex, cvCount>>
    /\ UNCHANGED <<inputs, error, algorithms, original_headers, s_bac, s_aap, s_ras,
                   s_mcc, FI_all, meanCsv, sigVars, prepVars, vizVars>>

\* line 45
DoPlotMeanAUC ==
    /\ pc = "doPlotMeanAUC"
    /\ written' = written \cup {"training/results/Summary_MeanAUC.png"}
    /\ pc' = "saveMetricMeans"
    /\ UNCHANGED <<inputs, error, algorithms, original_headers, statsLocals,
                   result_table, metric_dict, fiCsv, meanCsv, sigVars, prepVars, vizVars>>

\* one row of Summary_performance_mean.csv
MeanRow(algorithm) == [m \in Range(metrics) |-> Mean(metric_dict[algorithm][m])]

\* lines 243-260: the file is opened, then each list goes through mean() and
\* stdev(); statistics.stdev raises StatisticsError on fewer than two values
SaveMetricMeans ==
    /\ pc = "saveMetricMeans"
    /\ written' = written \cup {"training/results/Summary_performance_mean.csv"}
    /\ IF cv_partitions < 2
       THEN /\ pc' = "raised"
            /\ error' = "StatisticsError"
            /\ meanCsv' = <<>>
       ELSE /\ pc' = "saveMetricStd"
            /\ error' = error
            /\ meanCsv' = [a \in DOMAIN metric_dict |-> MeanRow(a)]
    /\ UNCHANGED <<inputs, algorithms, original_headers, statsLocals, result_table,
                   metric_dict, fiCsv, sigVars, prepVars, vizVars>>

\* lines 262-278
SaveMetricStd ==
    /\ pc = "saveMetricStd"
    /\ written' = written \cup {"training/results/Summary_performance_std.csv"}
    /\ IF cv_partitions < 2
       THEN /\ pc' = "raised"
            /\ error' = "StatisticsError"
       ELSE /\ pc' = "metricBoxplots"
            /\ error' = error
    /\ UNCHANGED <<inputs, algorithms, original_headers, statsLocals, result_table,
                   metric_dict, fiCsv, meanCsv, sigVars, prepVars, vizVars>>

\* lines 52-55: the boxplots when asked for, then the significance tests when
\* more than one algorithm was run
MetricBoxplots ==
    /\ pc = "metricBoxplots"
    /\ written' =
           IF plot_metric_boxplots = "True"
           THEN written \cup {"training/results/performanceBoxplots/"}
                        \cup {"training/results/performanceBoxplots/Compare_"
                                  \o metrics[i] \o ".png" : i \in DOMAIN metrics}
           ELSE written
    /\ pc' = IF Len(algorithms) > 1 THEN "kruskalWallis" ELSE "prepFI"
    /\ UNCHANGED <<inputs, error, algorithms, original_headers, statsLocals,
                   result_table, metric_dict, fiCsv, meanCsv, sigVars, prepVars, vizVars>>

(***************************************************************************)
(* Significance testing: kruskalWallis(), wilcoxonRank(), mannWhitneyU().  *)
(***************************************************************************)
\* round(x, 6) for x >= 0, ties to even
Round6(x) ==
    LET q == (x[1] * 1000000) \div x[2]
        r == (x[1] * 1000000) % x[2]
    IN  Rat(IF 2 * r > x[2] \/ (2 * r = x[2] /\ q % 2 = 1) THEN q + 1 ELSE q, 1000000)

\* tempArray of lines 314-316: one sample list per algorithm
TempArray(metric) == [i \in 1..Len(algorithms) |-> metric_dict[algorithms[i]][metric]]

\* stats.kruskal raises ValueError when all the numbers it is given are identical
KruskalRaises(tempArray) ==
    \A i, j \in DOMAIN tempArray :
        \A k \in DOMAIN tempArray[i], l \in DOMAIN tempArray[j] :
            tempArray[i][k] = tempArray[j][l]

\* lines 321-326 for a call of stats.kruskal that returned
KruskalRow(metric) ==
    [Statistic |-> "H",
     PValue |-> Round6(kruskalP[metric]),
     Sig |-> IF RLt(kruskalP[metric], sig_cutoff) THEN "*" ELSE ""]

\* the positions in metrics whose call of stats.kruskal raises
KruskalFailing == {i \in DOMAIN metrics : KruskalRaises(TempArray(metrics[i]))}

\* lines 303-329.  When stats.kruskal raises, the handler of line 320 sets
\* result to [tempArray[0], 1]: result[0] is a list, and round(result[0], 6) of
\* line 321 raises TypeError outside the try, before any cell of the metric's
\* row is set and before the summary is exported.
KruskalWallis ==
    /\ pc = "kruskalWallis"
    /\ IF KruskalFailing # {}
       THEN LET f == CHOOSE i \in KruskalFailing : \A j \in KruskalFailing : i <= j
            IN  /\ kruskal_summary' =
                       [m \in {metrics[i] : i \in 1..(f - 1)} |-> KruskalRow(m)]
                /\ written' = written \cup {"training/results/KWMW/"}
                /\ pc' = "raised"
                /\ error' = "TypeError"
       ELSE /\ kruskal_summary' = [m \in Range(metrics) |-> KruskalRow(m)]
            /\ written' = written \cup {"training/results/KWMW/",
                                        "training/results/KWMW/KruskalWallis.csv"}
            /\ pc' = "wilcoxonRank"
            /\ error' = error
    /\ UNCHANGED <<inputs, algorithms, original_headers, statsLocals, result_table,
                   metric_dict, fiCsv, meanCsv, wilcoxon_stats, mann_stats,
                   prepVars, vizVars>>

\* DonePairs without the look-up of the reversed pair in done
DonePairs_Ordered(k) ==
    LET n == Len(algorithms)
        visited == [i \in 1..k |-> <<algorithms[((i - 1) \div n) + 1],
                                     algorithms[((i - 1) % n) + 1]>>]
        Distinct(p) == p[1] # p[2]
    IN  SelectSeq(visited, Distinct)

\* the list done after the two nested loops over algorithms have visited the
\* first k pairs (algorithm1, algorithm2), in the loops' order
RECURSIVE DonePairs(_)
DonePairs(k) ==
    IF k = 0 THEN <<>>
    ELSE LET n == Len(algorithms)
             done == DonePairs(k - 1)
             algorithm1 == algorithms[((k - 1) \div n) + 1]
             algorithm2 == algorithms[((k - 1) % n) + 1]
         IN  IF /\ <<algorithm1, algorithm2>> \notin Range(done)
                /\ <<algorithm2, algorithm1>> \notin Range(done)
                /\ algorithm1 # algorithm2
             THEN Append(done, <<algorithm1, algorithm2>>)
             ELSE done

\* lines 342-355 and 373-386: the sentinel when every number of both samples
\* equals the first one, the test routine's answer otherwise
PairRow(test, metric, algorithm1, algorithm2) ==
    LET set1 == metric_dict[algorithm1][metric]
        set2 == metric_dict[algorithm2][metric]
        combined == set1 \o set2
        report == IF \A x \in Range(combined) : x = combined[1]
                  THEN [stat |-> "NA", p |-> One]
                  ELSE [stat |-> test, p |-> pairwiseP[metric]]
    IN  [Algorithm1 |-> algorithm1, Algorithm2 |-> algorithm2,
         Statistic |-> report.stat, PValue |-> report.p,
         Sig |-> IF RLt(report.p, sig_cutoff) THEN "*" ELSE ""]

\* the rows exported for each metric the Kruskal-Wallis summary flags
PairwiseStats(test) ==
    LET done == DonePairs(Len(algorithms) * Len(algorithms))
    IN  [m \in {x \in Range(metrics) : kruskal_summary[x].Sig = "*"} |->
            [r \in DOMAIN done |-> PairRow(test, m, done[r][1], done[r][2])]]

\* lines 331-360
WilcoxonRank ==
    /\ pc = "wilcoxonRank"
    /\ wilcoxon_stats' = PairwiseStats("wilcoxon")
    /\ written' = written \cup
           {"training/results/KWMW/WilcoxonRank_" \o m \o ".csv" :
               m \in DOMAIN PairwiseStats("wilcoxon")}
    /\ pc' = "mannWhitneyU"
    /\ UNCHANGED <<inputs, error, algorithms, original_headers, statsLocals,
                   result_table, metric_dict, fiCsv, meanCsv, kruskal_summary,
                   mann_stats, prepVars, vizVars>>

\* lines 362-391
MannWhitneyU ==
    /\ pc = "mannWhitneyU"
    /\ mann_stats' = PairwiseStats("mannwhitneyu")
    /\ written' = written \cup
           {"training/results/KWMW/MannWhitneyU_" \o m \o ".csv" :
               m \in DOMAIN PairwiseStats("mannwhitneyu")}
    /\ pc' = "prepFI"
    /\ UNCHANGED <<inputs, error, algorithms, original_headers, statsLocals,
                   result_table, metric_dict, fiCsv, meanCsv, kruskal_summary,
                   wilcoxon_stats, prepVars, vizVars>>

(***************************************************************************)
(* prepFI().                                                               *)
(***************************************************************************)
\* FIAverages without the division: the sum of each column
FIAverages_Sum(csv) ==
    [j \in 1..Len(csv.header) |-> Sum([r \in 1..Len(csv.rows) |-> csv.rows[r][j]])]

\* line 408, temp_df.mean().tolist(): the mean of each column of the FI file
FIAverages(csv) ==
    [j \in 1..Len(csv.header) |-> Mean([r \in 1..Len(csv.rows) |-> csv.rows[r][j]])]

\* NormalizeFI that guards the division only: scores below 0 are not clamped
NormalizeFI_NoClamp(each) ==
    [i \in DOMAIN each |->
        IF RLe(Max(each), Zero) THEN Zero ELSE RDiv(each[i], Max(each))]

\* normList of lines 415-420
NormalizeFI(each) ==
    [i \in DOMAIN each |->
        IF RLe(each[i], Zero) THEN Zero ELSE RDiv(each[i], Max(each))]

\* temp_non_zero_list of lines 425-428: the names of the first n features
\* whose average is positive, in the order of all_feature_list
RECURSIVE NonZeroFI(_, _, _)
NonZeroFI(each, names, n) ==
    IF n = 0 THEN <<>>
    ELSE IF RLt(Zero, each[n])
         THEN Append(NonZeroFI(each, names, n - 1), names[n])
         ELSE NonZeroFI(each, names, n - 1)

\* the lists non_zero_union_features can be after lines 430-433.  With one
\* algorithm it is that algorithm's list.  With more, it is list(set | set):
\* the iteration order of a set of strings, which depends on the hash seed of
\* the interpreter and so can be any order of the members.
NonZeroUnion(nonZeroLists) ==
    IF Len(nonZeroLists) = 1 THEN {nonZeroLists[1]}
    ELSE Orders(UNION {Range(nonZeroLists[j]) : j \in DOMAIN nonZeroLists})

\* lines 394-437.  Positions in non_zero_union_indexes count from 1 here.
PrepFI ==
    /\ pc = "prepFI"
    /\ LET n == Len(algorithms)
           names == fiCsv[abbrev[algorithms[1]]].header
           aves == [i \in 1..n |-> FIAverages(fiCsv[abbrev[algorithms[i]]])]
           alg_non_zero_FI_list == [i \in 1..n |-> NonZeroFI(aves[i], names, Len(names))]
       IN  /\ all_feature_list' = names
           /\ fi_ave_list' = aves
           /\ ave_metric_list' =
                  [i \in 1..n |-> Mean(metric_dict[algorithms[i]]["Balanced Accuracy"])]
           /\ fi_ave_norm_list' = [i \in 1..n |-> NormalizeFI(aves[i])]
           /\ non_zero_union_features' \in NonZeroUnion(alg_non_zero_FI_list)
           /\ non_zero_union_indexes' =
                  [k \in DOMAIN non_zero_union_features' |->
                      IndexOf(names, non_zero_union_features'[k])]
    /\ pc' = "selectForViz"
    /\ UNCHANGED <<inputs, error, algorithms, original_headers, statsLocals,
                   result_table, metric_dict, written, fiCsv, meanCsv, sigVars, vizVars>>

(***************************************************************************)
(* selectForViz().                                                         *)
(***************************************************************************)
\* lines 453-457: the performance weight of an algorithm
PerformanceWeight(ave) ==
    IF RLe(ave, Half) THEN Zero ELSE RDiv(RSub(ave, Half), Half)

\* scoreSumDict of lines 446-464, keyed by feature name
ScoreSumDict(nzFeatures, nzIndexes, nAlgs, aveMetric, norm) ==
    [each \in Range(nzFeatures) |->
        Sum([j \in 1..nAlgs |->
                RMul(norm[j][nzIndexes[IndexOf(nzFeatures, each)]],
                     PerformanceWeight(aveMetric[j]))])]

\* sorted(keys, key=score, reverse=True): descending, and stable, so keys of
\* equal score keep the order they have in keys
RECURSIVE SortedDesc(_, _)
SortedDesc(keys, score) ==
    IF keys = <<>> THEN <<>>
    ELSE LET n == Len(keys)
             init == SortedDesc(SubSeq(keys, 1, n - 1), score)
             x == keys[n]
             pos == Cardinality({i \in DOMAIN init : RLe(score[x], score[init[i]])})
         IN  SubSeq(init, 1, pos) \o <<x>> \o SubSeq(init, pos + 1, Len(init))

\* selectForViz without the ranking: the first features of the union
selectForViz_Unranked(top, nzFeatures, nzIndexes, nAlgs, aveMetric, norm) ==
    IF Len(nzFeatures) > top THEN SubSeq(nzFeatures, 1, top) ELSE nzFeatures

\* lines 439-470
selectForViz(top, nzFeatures, nzIndexes, nAlgs, aveMetric, norm) ==
    IF Len(nzFeatures) > top
    THEN SubSeq(SortedDesc(nzFeatures,
                           ScoreSumDict(nzFeatures, nzIndexes, nAlgs, aveMetric, norm)),
                1, top)
    ELSE nzFeatures

\* line 63
SelectForViz ==
    /\ pc = "selectForViz"
    /\ featuresToViz' =
           selectForViz(top_results, non_zero_union_features, non_zero_union_indexes,
                        Len(algorithms), ave_metric_list, fi_ave_norm_list)
    /\ pc' = "doFIBoxplots"
    /\ UNCHANGED <<inputs, error, algorithms, original_headers, statsLocals,
                   result_table, metric_dict, written, fiCsv, meanCsv, sigVars, prepVars,
                   top_fi_ave_norm_list, all_feature_listToViz, fracLists, weightedLists,
                   weights, weightedFracLists, bottoms>>

\* lines 65-66
DoFIBoxplots ==
    /\ pc = "doFIBoxplots"
    /\ written' =
           IF plot_FI_box = "True"
           THEN written \cup {"training/results/FI/" \o algorithms[i] \o "_boxplot" :
                                 i \in DOMAIN algorithms}
           ELSE written
    /\ pc' = "getFI_To_Viz_Sorted"
    /\ UNCHANGED <<inputs, error, algorithms, original_headers, statsLocals,
                   result_table, metric_dict, fiCsv, meanCsv, sigVars, prepVars, vizVars>>

(***************************************************************************)
(* The composite feature importance plots: lines 67-83 of job().           *)
(***************************************************************************)
\* lines 489-508: the scores and the names of the features to visualize, both
\* in the order of the original feature list
getFI_To_Viz(toViz, allFeatures, nAlgs, norm) ==
    LET feature_indexToViz == [k \in DOMAIN toViz |-> IndexOf(allFeatures, toViz[k])]
        InIndexes(j) == j \in Range(feature_indexToViz)
        InNames(f) == f \in Range(toViz)
    IN  [top_fi_ave_norm_list |->
             [i \in 1..nAlgs |->
                 LET kept == SelectSeq([j \in 1..Len(norm[i]) |-> j], InIndexes)
                 IN  [k \in DOMAIN kept |-> norm[i][kept[k]]]],
         all_feature_listToViz |-> SelectSeq(allFeatures, InNames)]

\* getFI_To_Viz_Sorted that takes the scores in original feature order
getFI_To_Viz_Sorted_Original(toViz, allFeatures, nAlgs, norm) ==
    getFI_To_Viz(toViz, allFeatures, nAlgs, norm).top_fi_ave_norm_list

\* top_fi_ave_norm_list of lines 514-524
getFI_To_Viz_Sorted(toViz, allFeatures, nAlgs, norm) ==
    [i \in 1..nAlgs |->
        [k \in DOMAIN toViz |-> norm[i][IndexOf(allFeatures, toViz[k])]]]

\* fracFI dividing by the largest score instead of the sum
fracFI_ByMax(topNorm) ==
    [a \in DOMAIN topNorm |->
        LET each == topNorm[a]
        IN  [i \in DOMAIN each |->
                IF Sum(each) = Zero THEN Zero ELSE RDiv(each[i], Max(each))]]

\* lines 571-586
fracFI(topNorm) ==
    [a \in DOMAIN topNorm |->
        LET each == topNorm[a]
        IN  [i \in DOMAIN each |->
                IF Sum(each) = Zero THEN Zero ELSE RDiv(each[i], Sum(each))]]

\* lines 593-595: ave_metric_list as weightFI leaves it
ClampedMetrics(aveMetric) ==
    [i \in DOMAIN aveMetric |-> IF RLe(aveMetric[i], Half) THEN Zero ELSE aveMetric[i]]

\* Weights without the rescaling: the clamped balanced accuracy itself
Weights_NoRescale(clamped) == clamped

\* weights of lines 597-601, from the clamped list
Weights(clamped) ==
    [i \in DOMAIN clamped |->
        IF clamped[i] = Zero THEN Zero ELSE RDiv(RSub(clamped[i], Half), Half)]

\* np.multiply(w, list).tolist()
Multiply(w, list) == [i \in DOMAIN list |-> RMul(w, list[i])]

\* weightedLists of lines 603-606
weightFI(aveMetric, topNorm) ==
    [i \in DOMAIN topNorm |-> Multiply(Weights(ClampedMetrics(aveMetric))[i], topNorm[i])]

\* weightFracFI without the weights: the fractionated matrix itself
weightFracFI_Unweighted(fracs, ws) == fracs

\* lines 609-615
weightFracFI(fracs, ws) == [i \in DOMAIN fracs |-> Multiply(ws[i], fracs[i])]

ComparePlot(figName) == "training/results/FI/Compare_FI_" \o figName \o ".png"

\* np.array(list) of lines 545 and 547 has an integer dtype when the list is
\* not empty and holds Python ints only.  A row of top_fi_ave_norm_list holds
\* the int 0 of line 418 where the average is at or below 0 and a positive
\* float elsewhere; a row of fracLists holds the int 0 of line 582 when its
\* input sums to 0 and floats otherwise.
IntRows(lists) ==
    [i \in DOMAIN lists |-> lists[i] # <<>> /\ \A k \in DOMAIN lists[i] : lists[i][k] = Zero]

\* np.multiply(w, list).tolist() of lines 605 and 613 holds ints when the weight
\* is the int 0 of line 599 and the list holds ints, floats otherwise
WeightedIntRows(ws, ints) == [i \in DOMAIN ints |-> ws[i] = Zero /\ ints[i]]

\* bottom after the inner loop of lines 543-548 for i + 1 = rows: the sum of
\* the first rows lists, feature by feature
Bottom(fi_list, rows) ==
    [c \in DOMAIN fi_list[1] |-> Sum([j \in 1..rows |-> fi_list[j][c]])]

\* the rows whose addition at line 548 fails: bottom += of a float array into
\* the integer array made from fi_list[0] raises UFuncTypeError
FailingRows(ints) == {r \in 2..(Len(ints) - 1) : ints[1] /\ ~ints[r]}

\* bottoms of lines 541-549, up to the first failing row when there is one
Bottoms(fi_list, ints) ==
    LET last == IF FailingRows(ints) = {} THEN Len(fi_list) - 1
                ELSE (CHOOSE r \in FailingRows(ints) :
                         \A q \in FailingRows(ints) : r <= q) - 1
    IN  [i \in 1..last |-> Bottom(fi_list, i)]

\* composite_FI_plot, lines 529-569, followed by the step next of job()
composite_FI_plot(fi_list, ints, figName, next) ==
    /\ bottoms' = Bottoms(fi_list, ints)
    /\ IF FailingRows(ints) # {}
       THEN /\ pc' = "raised"
            /\ error' = "UFuncTypeError"
            /\ written' = written
       ELSE /\ pc' = next
            /\ error' = error
            /\ written' = written \cup {ComparePlot(figName)}

\* lines 69-71
NormalizedPlot ==
    /\ pc = "getFI_To_Viz_Sorted"
    /\ top_fi_ave_norm_list' =
           getFI_To_Viz_Sorted(featuresToViz, all_feature_list, Len(algorithms),
                               fi_ave_norm_list)
    /\ all_feature_listToViz' = featuresToViz
    /\ composite_FI_plot(top_fi_ave_norm_list', IntRows(top_fi_ave_norm_list'),
                         "Norm", "fracFI")
    /\ UNCHANGED <<inputs, algorithms, original_headers, statsLocals,
                   result_table, metric_dict, fiCsv, meanCsv, sigVars, prepVars,
                   featuresToViz, fracLists, weightedLists, weights, weightedFracLists>>

\* lines 73-75
FracFI ==
    /\ pc = "fracFI"
    /\ fracLists' = fracFI(top_fi_ave_norm_list)
    /\ composite_FI_plot(fracLists', IntRows(fracLists'), "Norm_Frac", "weightFI")
    /\ UNCHANGED <<inputs, algorithms, original_headers, statsLocals,
                   result_table, metric_dict, fiCsv, meanCsv, sigVars, prepVars,
                   featuresToViz, top_fi_ave_norm_list, all_feature_listToViz,
                   weightedLists, weights, weightedFracLists>>

\* lines 77-79; weightFI overwrites the entries of ave_metric_list at or below 0.5
WeightFI ==
    /\ pc = "weightFI"
    /\ ave_metric_list' = ClampedMetrics(ave_metric_list)
    /\ weights' = Weights(ClampedMetrics(ave_metric_list))
    /\ weightedLists' = weightFI(ave_metric_list, top_fi_ave_norm_list)
    /\ composite_FI_plot(weightedLists',
                         WeightedIntRows(weights', IntRows(top_fi_ave_norm_list)),
                         "Norm_Weight", "weightFracFI")
    /\ UNCHANGED <<inputs, algorithms, original_headers, statsLocals,
                   result_table, metric_dict, fiCsv, meanCsv, sigVars, fi_ave_list,
                   fi_ave_norm_list, all_feature_list, non_zero_union_features,
                   non_zero_union_indexes, featuresToViz, top_fi_ave_norm_list,
                   all_feature_listToViz, fracLists, weightedFracLists>>

\* lines 81-83
WeightFracFI ==
    /\ pc = "weightFracFI"
    /\ weightedFracLists' = weightFracFI(fracLists, weights)
    /\ composite_FI_plot(weightedFracLists',
                         WeightedIntRows(weights, IntRows(fracLists)),
                         "Norm_Frac_Weight", "saveRuntime")
    /\ UNCHANGED <<inputs, algorithms, original_headers, statsLocals,
                   result_table, metric_dict, fiCsv, meanCsv, sigVars, prepVars,
                   featuresToViz, top_fi_ave_norm_list, all_feature_listToViz,
                   fracLists, weightedLists, weights>>

\* lines 84-93: the runtime report and the completion marker
Complete ==
    /\ pc = "saveRuntime"
    /\ written' = written \cup {"runtime/runtime_Stats.txt", "runtimes.csv",
                                "jobsCompleted/job_stats.txt"}
    /\ pc' = "done"
    /\ UNCHANGED <<inputs, error, algorithms, original_headers, statsLocals,
                   result_table, metric_dict, fiCsv, meanCsv, sigVars, prepVars, vizVars>>

Next ==
    \/ JobPreparation
    \/ PrimaryStatsFold
    \/ PrimaryStatsAlgorithm
    \/ DoPlotMeanAUC
    \/ SaveMetricMeans
    \/ SaveMetricStd
    \/ MetricBoxplots
    \/ KruskalWallis
    \/ WilcoxonRank
    \/ MannWhitneyU
    \/ PrepFI
    \/ SelectForViz
    \/ DoFIBoxplots
    \/ NormalizedPlot
    \/ FracFI
    \/ WeightFI
    \/ WeightFracFI
    \/ Complete


(***************************************************************************)
(* Initial states: job() is entered with its arguments, and the files of   *)
(* the earlier phases are on disk.                                         *)
(***************************************************************************)
\* the state at the call of job(); bundles[a][k] is the pickled result of the
\* a-th selected algorithm on fold k - 1
JobStart(pm, ea, cv, top, il, pmb, pfb, hdrs, bundles, kp, pp) ==
    /\ encoded_algos = ea
    /\ cv_partitions = cv
    /\ top_results = top
    /\ instance_label = il
    /\ sig_cutoff = <<1, 20>>
    /\ plot_metric_boxplots = pmb
    /\ plot_FI_box = pfb
    /\ primary_metric = pm
    /\ testHeaders = hdrs
    /\ pickled = [ab \in {abbrev[a] : a \in Range(preparation(ea))} |->
                     bundles[CHOOSE i \in DOMAIN preparation(ea) :
                                 abbrev[preparation(ea)[i]] = ab]]
    /\ kruskalP = kp
    /\ pairwiseP = pp
    /\ pc = "start"
    /\ error = "none"
    /\ algorithms = <<>>
    /\ original_headers = <<>>
    /\ algIndex = 1
    /\ cvCount = 0
    /\ s_bac = <<>>
    /\ s_aap = <<>>
    /\ s_ras = <<>>
    /\ s_mcc = <<>>
    /\ FI_all = <<>>
    /\ FI_ave = <<>>
    /\ result_table = <<>>
    /\ metric_dict = <<>>
    /\ written = {}
    /\ fiCsv = <<>>
    /\ meanCsv = <<>>
    /\ kruskal_summary = <<>>
    /\ wilcoxon_stats = <<>>
    /\ mann_stats = <<>>
    /\ fi_ave_list = <<>>
    /\ fi_ave_norm_list = <<>>
    /\ ave_metric_list = <<>>
    /\ all_feature_list = <<>>
    /\ non_zero_union_features = <<>>
    /\ non_zero_union_indexes = <<>>
    /\ featuresToViz = <<>>
    /\ top_fi_ave_norm_list = <<>>
    /\ all_feature_listToViz = <<>>
    /\ fracLists = <<>>
    /\ weightedLists = <<>>
    /\ weights = <<>>
    /\ weightedFracLists = <<>>
    /\ bottoms = <<>>

\* a call of job() with primary_metric 'balanced_accuracy'
JobInit(ea, cv, top, il, pmb, pfb, hdrs, bundles, kp, pp) ==
    JobStart("balanced_accuracy", ea, cv, top, il, pmb, pfb, hdrs, bundles, kp, pp)

\* answers of the test routines: every metric not significant, or every
\* metric significant
NotSignificant == [m \in Range(metrics) |-> <<1, 2>>]
Significant == [m \in Range(metrics) |-> <<1, 100>>]

\* the metrics of a bundle when a family does not vary them: they differ
\* between algorithms and folds
Bundle(a, k, conf, fi) ==
    [bac |-> Rat(12 + 2 * a + k, 20),
     conf |-> conf,
     roc_auc |-> Rat(11 + 2 * a + k, 20),
     mcc |-> Rat(2 * a + k, 20),
     fi |-> fi]

Conf(a, k) == <<<<2, 1>>, <<0, 1 + ((a + k) % 2)>>>>

\* the columns of a test file that kept every feature, class column last
FullHeader == Append(FeatureNames, class_label)

\* the end-to-end scenario: two algorithms, three folds, features f1, f2, f3;
\* fold 0 keeps f1, f3 with FI [0.2, 0.4], fold 1 keeps all with
\* [0.1, 0.0, 0.5], fold 2 keeps f1, f2 with [0.3, 0.2]; balanced accuracies
\* 0.9 and 0.4
ScenarioHeaders ==
    <<<<"f1", "f3", class_label>>, <<"f1", "f2", "f3", class_label>>,
      <<"f1", "f2", class_label>>>>

ScenarioFI ==
    <<<<<<1, 5>>, <<2, 5>>>>, <<<<1, 10>>, Zero, <<1, 2>>>>, <<<<3, 10>>, <<1, 5>>>>>>

InitScenario ==
    JobInit(<<"1", "1", "0", "0", "0", "0", "0">>, 3, 2, "None", "True", "True",
            ScenarioHeaders,
            [a \in 1..2 |->
                [k \in 1..3 |->
                    [Bundle(a, k - 1, Conf(a, k - 1), ScenarioFI[k])
                        EXCEPT !.bac = IF a = 1 THEN <<9, 10>> ELSE <<2, 5>>]]],
            Significant, NotSignificant)

\* every test-file header over a subset of the features, in every column order
HeadersOf(il) ==
    UNION {Orders(S \cup {class_label} \cup (IF il = "None" THEN {} ELSE {il})) :
              S \in SUBSET Range(FeatureNames)}

\* FI scores that differ from position to position, fold to fold and
\* algorithm to algorithm
PositionFI(a, k, n) == [p \in 1..n |-> Rat(a + k + p, 10)]

\* the header of a later fold: the features in reverse order after the labels
LaterHeader(il) ==
    (IF il = "None" THEN <<>> ELSE <<il>>) \o <<class_label>>
        \o [i \in 1..NumFeatures |-> FeatureNames[NumFeatures + 1 - i]]

\* one algorithm over 1..MaxFolds folds, or two algorithms over two folds;
\* fold 0 has any header, the later folds keep every feature
InitHeaders ==
    \E il \in {"None", "InstanceID"} :
      \E h \in HeadersOf(il) :
        \E run \in {<<<<"1", "0", "0", "0", "0", "0", "0">>, cv>> : cv \in 1..MaxFolds}
                     \cup {<<<<"0", "1", "1", "0", "0", "0", "0">>, 2>>} :
          LET hdrs == [k \in 1..run[2] |-> IF k = 1 THEN h ELSE LaterHeader(il)]
              nf(k) == Len(hdrs[k]) - (IF il = "None" THEN 1 ELSE 2)
          IN  JobInit(run[1], run[2], 2, il, "False", "False", hdrs,
                      [a \in 1..2 |->
                          [k \in 1..run[2] |->
                              Bundle(a, k - 1, Conf(a, k - 1),
                                     PositionFI(a, k - 1, nf(k)))]],
                      NotSignificant, NotSignificant)

\* the square matrices of size n with cells 0..MaxCount whose first column is
\* not all zero (num_labeled # 0)
ConfMatrices(n) ==
    {c \in [1..n -> [1..n -> 0..MaxCount]] : \E r \in 1..n : c[r][1] > 0}

\* two algorithms over two folds; the confusion matrix of the first
\* algorithm's fold 0 is any two-class matrix, or a three-class matrix that
\* is diagonal but for one cell
InitConf ==
    \E c \in ConfMatrices(2)
              \cup {[r \in 1..3 |-> [q \in 1..3 |->
                        IF r = q THEN d ELSE IF <<r, q>> = o THEN 1 ELSE 0]] :
                       d \in 1..MaxCount,
                       o \in {<<1, 2>>, <<2, 1>>, <<3, 1>>, <<2, 3>>}} :
        JobInit(<<"1", "1", "0", "0", "0", "0", "0">>, 2, 2, "None", "False", "False",
                [k \in 1..2 |-> FullHeader],
                [a \in 1..2 |->
                    [k \in 1..2 |->
                        Bundle(a, k - 1,
                               IF a = 1 /\ k = 1 THEN c ELSE Conf(a, k - 1),
                               PositionFI(a, k - 1, NumFeatures))]],
                NotSignificant, NotSignificant)

\* encoded_algos of a run of Naive Bayes, and of Naive Bayes and Decision Tree
OneAlgorithm == <<"1", "0", "0", "0", "0", "0", "0">>
TwoAlgorithms == <<"1", "1", "0", "0", "0", "0", "0">>

\* the columns of a test file that kept the features of S: in original order
\* for an even fold, in reverse order for an odd one, class column last
KeptHeader(S, k) ==
    LET IsKept(f) == f \in S
        kept == SelectSeq(FeatureNames, IsKept)
    IN  Append(IF k % 2 = 0 THEN kept
               ELSE [i \in 1..Len(kept) |-> kept[Len(kept) + 1 - i]],
               class_label)

\* one or two algorithms over 2..MaxFolds folds that all kept the same subset
\* of the features; the FI scores are all positive or all negative
InitDropped ==
    \E S \in SUBSET Range(FeatureNames) :
      \E cv \in 2..MaxFolds :
        \E ea \in {OneAlgorithm, TwoAlgorithms} :
          \E sign \in {1, -1} :
            JobInit(ea, cv, 2, "None", "False", "False",
                    [k \in 1..cv |-> KeptHeader(S, k - 1)],
                    [a \in 1..2 |->
                        [k \in 1..cv |->
                            Bundle(a, k - 1, Conf(a, k - 1),
                                   [p \in 1..Cardinality(S) |->
                                       Rat(sign * (a + k + p), 10)])]],
                    NotSignificant, NotSignificant)

Init == InitScenario \/ InitHeaders \/ InitConf \/ InitDropped

\* the FI scores the composite-plot family draws from
FIValues == {<<-1, 10>>, Zero, <<1, 10>>, <<1, 5>>}

\* the FI vectors of the second algorithm, given the first one's: the first
\* one's reversed, or descending from the first feature down to 0
SecondVectors(v) ==
    {[i \in 1..NumFeatures |-> v[NumFeatures + 1 - i]],
     [i \in 1..NumFeatures |-> Rat(NumFeatures - i, 10)]}

\* the balanced accuracies of the two algorithms, the same in every fold
BalancedAccuracies == {<<<<9, 10>>, <<2, 5>>>>, <<One, Half>>, <<<<3, 4>>, <<9, 10>>>>}


\* one or two algorithms over two folds that keep every feature.  Run alone,
\* the first algorithm has any FI vector over FIValues; run with a second
\* one, any vector over the values of FIValues that are not negative.
InitViz ==
    \E ea \in {OneAlgorithm, TwoAlgorithms} :
      \E top \in 1..NumFeatures :
        \E v \in [1..NumFeatures ->
                     IF ea = OneAlgorithm THEN FIValues
                     ELSE {x \in FIValues : RLe(Zero, x)}] :
          \E w \in SecondVectors(v) :
            \E b \in BalancedAccuracies :
              JobInit(ea, 2, top, "None", "False", "False",
                      [k \in 1..2 |-> FullHeader],
                      [a \in 1..2 |->
                          [k \in 1..2 |->
                              [Bundle(a, k - 1, Conf(a, k - 1), IF a = 1 THEN v ELSE w)
                                  EXCEPT !.bac = b[a]]]],
                      NotSignificant, NotSignificant)

SpecViz == InitViz /\ [][Next]_vars

ThreeAlgorithms == <<"1", "1", "1", "0", "0", "0", "0">>

\* the balanced accuracies the significance family draws from
SampleValues == {<<4, 5>>, <<9, 10>>}

\* the answers of stats.kruskal the significance family draws from: no metric
\* significant, every metric significant, or the balanced accuracy alone
KruskalAnswers ==
    {NotSignificant, Significant,
     [m \in Range(metrics) |-> IF m = "Balanced Accuracy" THEN <<1, 100>> ELSE <<1, 2>>]}

\* two or three algorithms over two folds; every balanced accuracy is any of
\* SampleValues, so that the samples of two or of all algorithms can agree;
\* the ROC AUC is the same everywhere when flat, and differs otherwise; only
\* the first feature has a non-zero FI score
InitSig ==
    \E ea \in {TwoAlgorithms, ThreeAlgorithms} :
      \E bacs \in [1..3 -> [1..2 -> SampleValues]] :
        \E flat \in BOOLEAN :
          \E kp \in KruskalAnswers :
            \E pp \in {NotSignificant, Significant} :
              JobInit(ea, 2, 2, "None", "False", "False",
                      [k \in 1..2 |-> FullHeader],
                      [a \in 1..3 |->
                          [k \in 1..2 |->
                              [Bundle(a, k - 1, Conf(a, k - 1),
                                      [p \in 1..NumFeatures |->
                                          IF p = 1 THEN <<1, 10>> ELSE Zero])
                                  EXCEPT !.bac = bacs[a][k],
                                         !.roc_auc = IF flat THEN <<3, 4>> ELSE @]]],
                      kp, pp)

SpecSig == InitSig /\ [][Next]_vars

\* the FI scores of an algorithm in the stacking family: none above 0, or some
StackVectors ==
    {[p \in 1..NumFeatures |-> Zero],
     [p \in 1..NumFeatures |-> IF p = 1 THEN RNeg(<<1, 10>>) ELSE Zero],
     [p \in 1..NumFeatures |-> IF p = NumFeatures THEN Zero ELSE <<p, 10>>],
     [p \in 1..NumFeatures |-> IF p = 1 THEN Zero ELSE <<1, 5>>]}

\* three algorithms over two folds with full headers; each algorithm has any
\* of StackVectors as its FI scores in both folds and a balanced accuracy of
\* 0.4 or 0.9
InitStack ==
    \E top \in {1, NumFeatures} :
      \E v \in [1..3 -> StackVectors] :
        \E b \in [1..3 -> {<<2, 5>>, <<9, 10>>}] :
          JobInit(ThreeAlgorithms, 2, top, "None", "False", "False",
                  [k \in 1..2 |-> FullHeader],
                  [a \in 1..3 |->
                      [k \in 1..2 |->
                          [Bundle(a, k - 1, Conf(a, k - 1), v[a]) EXCEPT !.bac = b[a]]]],
                  NotSignificant, NotSignificant)

SpecStack == InitStack /\ [][Next]_vars

\* the primary_metric arguments the fault family draws from: two names of
\* metric_term_dict and two that are not in it
MetricNames == {"balanced_accuracy", "roc_auc", "accuracy", "Balanced Accuracy"}

\* one or two algorithms over two folds; any of the metrics files and any of
\* the test files may be missing, and primary_metric is any of MetricNames
InitFaults ==
    \E pm \in MetricNames :
      \E ea \in {OneAlgorithm, TwoAlgorithms} :
        \E top \in {1, NumFeatures} :
          \E plots \in {"True", "False"} :
            \E present \in [1..2 -> SUBSET (1..2)] :
              \E tests \in SUBSET (1..2) :
                JobStart(pm, ea, 2, top, "None", plots, plots,
                         [k \in tests |-> FullHeader],
                         [a \in 1..2 |->
                             [k \in present[a] |->
                                 Bundle(a, k - 1, Conf(a, k - 1),
                                        PositionFI(a, k - 1, NumFeatures))]],
                         NotSignificant, NotSignificant)

SpecFaults == InitFaults /\ [][Next]_vars

Spec == Init /\ [][Next]_vars


(***************************************************************************)
(* Properties.                                                             *)
(***************************************************************************)
\* the label columns of a test file
LabelColumns == {class_label} \cup (IF instance_label = "None" THEN {} ELSE {instance_label})

\* row is the reconciliation of the scores fi of a fold whose test file has
\* the columns cols: one entry per original feature, the score at the
\* feature's place among the feature columns of the file, 0 when the file
\* does not have the feature
IsReconciled(row, cols, fi) ==
    /\ Len(row) = Len(FeatureNames)
    /\ \A i \in 1..Len(FeatureNames) :
          IF \E p \in DOMAIN cols : cols[p] = FeatureNames[i]
          THEN \E p \in DOMAIN cols :
                  /\ cols[p] = FeatureNames[i]
                  /\ row[i] = fi[p - Cardinality({q \in 1..(p - 1) : cols[q] \in LabelColumns})]
          ELSE row[i] = Zero

\* the run is the end-to-end scenario
IsScenario ==
    /\ testHeaders = ScenarioHeaders
    /\ cv_partitions = 3
    /\ \A ab \in DOMAIN pickled : \A k \in 1..3 : pickled[ab][k].fi = ScenarioFI[k]

\* the rows the scenario expects: [0.2,0,0.4], [0.1,0,0.5], [0.3,0.2,0]
ScenarioReconciled ==
    <<<<<<1, 5>>, Zero, <<2, 5>>>>, <<<<1, 10>>, Zero, <<1, 2>>>>, <<<<3, 10>>, <<1, 5>>, Zero>>>>

\* C1: every reconciled FI row of every algorithm and fold, as built in
\* primaryStats and as saved in the algorithm's FI file, has one entry per
\* original feature: the fold's score at the feature's position in the fold
\* header (label columns removed) when the header has the feature, 0
\* otherwise; the scenario's rows are [0.2,0,0.4], [0.1,0,0.5], [0.3,0.2,0].
C1_ReconciledRows ==
    /\ \A ab \in DOMAIN fiCsv : \A k \in DOMAIN fiCsv[ab].rows :
          IsReconciled(fiCsv[ab].rows[k], testHeaders[k], pickled[ab][k].fi)
    /\ (pc = "primaryStats" /\ cvCount > 0) =>
          /\ Len(FI_all) = cvCount
          /\ \A k \in 1..cvCount :
                IsReconciled(FI_all[k], testHeaders[k],
                             pickled[abbrev[algorithms[algIndex]]][k].fi)
    /\ IsScenario =>
          \A ab \in DOMAIN fiCsv : \A k \in 1..3 :
              SubSeq(fiCsv[ab].rows[k], 1, 3) = ScenarioReconciled[k]

\* a fold with an instance column that dropped a feature and kept another at
\* a place other than its original one has been reconciled and saved
C1_Witness ==
    \E ab \in DOMAIN fiCsv :
        /\ instance_label # "None"
        /\ \E i \in 1..Len(FeatureNames) : FeatureNames[i] \notin Range(testHeaders[1])
        /\ \E i \in 1..Len(FeatureNames) :
              /\ FeatureNames[i] \in Range(testHeaders[1])
              /\ IndexOf(FoldHeaders(testHeaders[1], instance_label, class_label),
                         FeatureNames[i]) # i
              /\ fiCsv[ab].rows[1][i] # Zero

\* C2: the per-algorithm average (fi_ave_list of prepFI, and FI_ave of
\* primaryStats) times the number of folds is the sum over the folds of the
\* reconciled rows, feature by feature; in the scenario the average is
\* [0.2, 0.2/3, 0.3].
C2_AverageIsMeanOverFolds ==
    /\ \A a \in DOMAIN fi_ave_list : \A j \in 1..Len(FeatureNames) :
          RMul(fi_ave_list[a][j], <<cv_partitions, 1>>) =
              Sum([k \in 1..cv_partitions |-> fiCsv[abbrev[algorithms[a]]].rows[k][j]])
    /\ \A a \in DOMAIN fi_ave_list : Len(fi_ave_list[a]) = Len(FeatureNames)
    /\ (pc = "primaryStats" /\ cvCount = 0 /\ algIndex > 1) \/ pc = "doPlotMeanAUC" =>
          \A j \in 1..Len(FeatureNames) :
              RMul(FI_ave[j], <<cv_partitions, 1>>) =
                  Sum([k \in 1..cv_partitions |-> FI_all[k][j]])
    /\ IsScenario =>
          \A a \in DOMAIN fi_ave_list :
              SubSeq(fi_ave_list[a], 1, 3) = <<<<1, 5>>, <<1, 15>>, <<3, 10>>>>

\* prepFI has averaged an algorithm whose folds disagree on a feature
C2_Witness ==
    /\ pc = "selectForViz"
    /\ cv_partitions >= 2
    /\ \E a \in DOMAIN fi_ave_list : \E j \in 1..Len(FeatureNames) :
          LET rows == fiCsv[abbrev[algorithms[a]]].rows
          IN  rows[1][j] # rows[2][j] /\ fi_ave_list[a][j] # Zero

\* the total of column k of a confusion matrix: the instances labeled k
ColumnTotal(conf, k) == Sum([r \in 1..Len(conf) |-> <<conf[r][k], 1>>])

\* the total of row k of a confusion matrix: the instances of class k
RowTotal(conf, k) == Sum([q \in 1..Len(conf) |-> <<conf[k][q], 1>>])

\* the uniform average over the classes of conf[k][k] / total(k)
PerClassAverage(conf, total) ==
    RDiv(Sum([k \in 1..Len(conf) |-> RDiv(<<conf[k][k], 1>>, total[k])]), <<Len(conf), 1>>)

\* C3: the aggregate average precision stored for a fold is the uniform
\* average over the classes k of C[k][k] / total_labeled_k with a per-class
\* denominator (read as the column total or as the row total of class k).
C3_PerClassDenominator ==
    (pc = "primaryStats" /\ cvCount > 0) =>
        LET conf == pickled[abbrev[algorithms[algIndex]]][cvCount].conf
            cols == [k \in 1..Len(conf) |-> ColumnTotal(conf, k)]
            rows == [k \in 1..Len(conf) |-> RowTotal(conf, k)]
        IN  (\A k \in 1..Len(conf) : cols[k] # Zero /\ rows[k] # Zero) =>
                \/ s_aap[cvCount] = PerClassAverage(conf, cols)
                \/ s_aap[cvCount] = PerClassAverage(conf, rows)


\* selectForViz has returned
Selected ==
    pc \in {"doFIBoxplots", "getFI_To_Viz_Sorted", "fracFI", "weightFI", "weightFracFI",
            "saveRuntime", "done"}

\* the original features with a positive average for at least one algorithm
NonZeroFeatureUnion ==
    {FeatureNames[i] : i \in {j \in 1..Len(FeatureNames) :
                                \E a \in DOMAIN fi_ave_list : RLt(Zero, fi_ave_list[a][j])}}

\* the members of S in the order of OriginalFeatureList
RECURSIVE InOriginalOrder(_, _)
InOriginalOrder(S, n) ==
    IF n = 0 THEN <<>>
    ELSE IF FeatureNames[n] \in S
         THEN Append(InOriginalOrder(S, n - 1), FeatureNames[n])
         ELSE InOriginalOrder(S, n - 1)

\* C4: when the non-zero union has at most top_results members, selectForViz
\* returns the union with its names in the order of OriginalFeatureList.
C4_UnionInOriginalOrder ==
    (Selected /\ Cardinality(NonZeroFeatureUnion) <= top_results) =>
        featuresToViz = InOriginalOrder(NonZeroFeatureUnion, Len(FeatureNames))

\* the mean balanced accuracy of the a-th algorithm
MeanMetric(a) == Mean(metric_dict[algorithms[a]]["Balanced Accuracy"])

\* w(a): 0 for a mean at or below 0.5, else the mean rescaled, 2 * mean - 1
W(a) ==
    IF RLe(MeanMetric(a), Half) THEN Zero ELSE RSub(RMul(<<2, 1>>, MeanMetric(a)), One)

\* score(f): the sum over the algorithms of NormalizedFI[a][f] * w(a)
Score(f) ==
    Sum([a \in 1..Len(algorithms) |->
            RMul(fi_ave_norm_list[a][IndexOf(FeatureNames, f)], W(a))])

\* C5: when the non-zero union has more than top_results members,
\* selectForViz returns top_results distinct features of the union in
\* non-increasing order of score, each with a score at least that of every
\* feature of the union left out.
C5_TopByScore ==
    (Selected /\ Cardinality(NonZeroFeatureUnion) > top_results) =>
        /\ Len(featuresToViz) = top_results
        /\ Range(featuresToViz) \subseteq NonZeroFeatureUnion
        /\ \A i, j \in DOMAIN featuresToViz : featuresToViz[i] = featuresToViz[j] => i = j
        /\ \A i, j \in DOMAIN featuresToViz :
              i < j => RLe(Score(featuresToViz[j]), Score(featuresToViz[i]))
        /\ \A f \in Range(featuresToViz), g \in NonZeroFeatureUnion \ Range(featuresToViz) :
              RLe(Score(g), Score(f))

\* two algorithms, and a feature of the union was left out for its lower score
C5_Witness ==
    /\ Selected
    /\ Len(algorithms) = 2
    /\ Cardinality(NonZeroFeatureUnion) > top_results
    /\ \E f \in Range(featuresToViz), g \in NonZeroFeatureUnion \ Range(featuresToViz) :
          /\ RLt(Score(g), Score(f))
          /\ IndexOf(FeatureNames, g) < IndexOf(FeatureNames, f)

\* C6: the ranking is a function of the inputs: features of equal score are
\* ordered, and cut off at top_results, by their order in OriginalFeatureList,
\* also when two or more algorithms contribute to the union.
C6_TiesInOriginalOrder ==
    (Selected /\ Cardinality(NonZeroFeatureUnion) > top_results) =>
        /\ \A i, j \in DOMAIN featuresToViz :
              (i < j /\ Score(featuresToViz[i]) = Score(featuresToViz[j])) =>
                  IndexOf(FeatureNames, featuresToViz[i])
                      < IndexOf(FeatureNames, featuresToViz[j])
        /\ \A f \in Range(featuresToViz), g \in NonZeroFeatureUnion \ Range(featuresToViz) :
              Score(f) = Score(g) => IndexOf(FeatureNames, f) < IndexOf(FeatureNames, g)

\* prepFI has returned
Prepared == Selected \/ pc = "selectForViz"

\* C7: every normalized entry lies in [0,1]; it is 0 exactly when the raw
\* average is <= 0 and raw / max(raw vector) otherwise, a division by a
\* positive number; the largest entry is 1 when some raw average is positive;
\* normalizing the normalized vector returns it unchanged.
C7_Normalized ==
    Prepared =>
        \A a \in DOMAIN fi_ave_norm_list :
            LET raw == fi_ave_list[a]
                norm == fi_ave_norm_list[a]
            IN  /\ DOMAIN norm = DOMAIN raw
                /\ \A i \in DOMAIN norm :
                      /\ RLe(Zero, norm[i]) /\ RLe(norm[i], One)
                      /\ norm[i] = Zero <=> RLe(raw[i], Zero)
                      /\ RLt(Zero, raw[i]) =>
                            \E m \in Range(raw) :
                                /\ \A y \in Range(raw) : RLe(y, m)
                                /\ RLt(Zero, m)
                                /\ RMul(norm[i], m) = raw[i]
                /\ (\E i \in DOMAIN raw : RLt(Zero, raw[i])) =>
                      /\ \E i \in DOMAIN norm : norm[i] = One
                      /\ \A i \in DOMAIN norm : RLe(norm[i], One)
                /\ NormalizeFI(norm) = norm

\* prepFI has normalized a vector with a negative average and two different
\* positive ones
C7_Witness ==
    /\ Prepared
    /\ \E a \in DOMAIN fi_ave_list :
          /\ \E i \in DOMAIN fi_ave_list[a] :
                RLt(fi_ave_list[a][i], Zero) /\ fi_ave_norm_list[a][i] = Zero
          /\ \E i, j \in DOMAIN fi_ave_list[a] :
                /\ RLt(Zero, fi_ave_list[a][i])
                /\ RLt(fi_ave_list[a][i], fi_ave_list[a][j])
                /\ fi_ave_norm_list[a][j] = One

\* weightFI has returned
Weighted == pc \in {"weightFracFI", "saveRuntime", "done"}

\* C8: weightFI gives each algorithm the weight 0 for a mean primary metric
\* <= 0.5 and (mean - 0.5)/0.5 otherwise, and its weighted vector is its
\* normalized vector times that weight: all zero for a mean <= 0.5, the
\* normalized vector itself for a mean of 1.0; means [0.9, 0.4] give the
\* weights [0.8, 0.0].
C8_Weighted ==
    Weighted =>
        /\ DOMAIN weights = DOMAIN algorithms
        /\ DOMAIN weightedLists = DOMAIN algorithms
        /\ \A a \in DOMAIN algorithms :
              /\ weights[a] = W(a)
              /\ DOMAIN weightedLists[a] = DOMAIN top_fi_ave_norm_list[a]
              /\ \A j \in DOMAIN weightedLists[a] :
                    weightedLists[a][j] = RMul(W(a), top_fi_ave_norm_list[a][j])
              /\ RLe(MeanMetric(a), Half) =>
                    \A j \in DOMAIN weightedLists[a] : weightedLists[a][j] = Zero
              /\ MeanMetric(a) = One => weightedLists[a] = top_fi_ave_norm_list[a]
        /\ (Len(algorithms) = 2 /\ MeanMetric(1) = <<9, 10>> /\ MeanMetric(2) = <<2, 5>>) =>
              weights = <<<<4, 5>>, Zero>>

\* weightFI has weighted means [0.9, 0.4], the second algorithm with a
\* non-zero normalized vector
C8_Witness ==
    /\ Weighted
    /\ Len(algorithms) = 2
    /\ MeanMetric(1) = <<9, 10>> /\ MeanMetric(2) = <<2, 5>>
    /\ \E j \in DOMAIN top_fi_ave_norm_list[2] : top_fi_ave_norm_list[2][j] # Zero
    /\ \E j \in DOMAIN top_fi_ave_norm_list[1] :
          top_fi_ave_norm_list[1][j] # Zero /\ top_fi_ave_norm_list[1][j] # One

\* fracFI has returned
Fractionated == pc \in {"weightFI", "weightFracFI", "saveRuntime", "done"}

\* C9: each vector fracFI produces has the length of its input; it sums to 1
\* when the input is not all zero, each entry the input's entry over the
\* input's non-zero sum, and is all zero when the input sums to 0.
C9_Fractionated ==
    Fractionated =>
        /\ DOMAIN fracLists = DOMAIN top_fi_ave_norm_list
        /\ \A a \in DOMAIN fracLists :
              LET each == top_fi_ave_norm_list[a]
              IN  /\ DOMAIN fracLists[a] = DOMAIN each
                  /\ IF \E i \in DOMAIN each : each[i] # Zero
                     THEN /\ Sum(each) # Zero
                          /\ Sum(fracLists[a]) = One
                          /\ \A i \in DOMAIN each :
                                RMul(fracLists[a][i], Sum(each)) = each[i]
                     ELSE \A i \in DOMAIN each : fracLists[a][i] = Zero

\* fracFI has seen an all-zero vector of two or more entries and a vector
\* with two non-zero entries
C9_Witness ==
    /\ Fractionated
    /\ \E a \in DOMAIN fracLists :
          /\ Len(top_fi_ave_norm_list[a]) >= 2
          /\ \A i \in DOMAIN top_fi_ave_norm_list[a] : top_fi_ave_norm_list[a][i] = Zero
    /\ \E a \in DOMAIN fracLists :
          \E i, j \in DOMAIN top_fi_ave_norm_list[a] :
              /\ i # j
              /\ top_fi_ave_norm_list[a][i] # Zero
              /\ top_fi_ave_norm_list[a][j] # Zero


\* kruskalWallis has been called and has returned or raised
KruskalCalled ==
    \/ pc \in {"wilcoxonRank", "mannWhitneyU", "prepFI"}
    \/ Prepared
    \/ (pc = "raised" /\ error = "TypeError")

\* C10: for every metric whose Kruskal-Wallis library call fails,
\* kruskalWallis does not raise: the summary has a row for the metric with
\* p-value 1 and an empty significance flag, and the summary is written.
C10_KruskalFallback ==
    (Len(algorithms) > 1 /\ KruskalCalled) =>
        \A i \in KruskalFailing :
            /\ pc # "raised"
            /\ metrics[i] \in DOMAIN kruskal_summary
            /\ kruskal_summary[metrics[i]].PValue = One
            /\ kruskal_summary[metrics[i]].Sig = ""
            /\ "training/results/KWMW/KruskalWallis.csv" \in written

\* wilcoxonRank and mannWhitneyU have returned
PairwiseDone == Len(algorithms) > 1 /\ (pc = "prepFI" \/ Prepared)

\* the rows of both pairwise tests for a metric, as a set
PairwiseRows(m) ==
    (IF m \in DOMAIN wilcoxon_stats THEN Range(wilcoxon_stats[m]) ELSE {})
        \cup (IF m \in DOMAIN mann_stats THEN Range(mann_stats[m]) ELSE {})

\* set1[k] = set2[k] for every fold k
ElementwiseIdentical(m, algorithm1, algorithm2) ==
    \A k \in 1..cv_partitions :
        metric_dict[algorithm1][m][k] = metric_dict[algorithm2][m][k]

\* C11: in wilcoxonRank and mannWhitneyU, a pair of algorithms whose samples
\* of the metric are elementwise identical gets the sentinel row (statistic
\* "NA", p-value 1) and the test routine is not called, also when the shared
\* values differ from fold to fold.
C11_IdenticalSamplesSentinel ==
    PairwiseDone =>
        \A m \in Range(metrics) :
            \A row \in PairwiseRows(m) :
                ElementwiseIdentical(m, row.Algorithm1, row.Algorithm2) =>
                    row.Statistic = "NA" /\ row.PValue = One

\* the metrics the Kruskal-Wallis answer puts below the cutoff
FlaggedMetrics == {m \in Range(metrics) : RLt(kruskalP[m], sig_cutoff)}

\* the unordered pairs of distinct algorithms
UnorderedPairs == {{a, b} : a, b \in Range(algorithms)} \ {{a} : a \in Range(algorithms)}

\* every unordered pair of distinct algorithms is in exactly one row
EachPairOnce(rows) ==
    /\ 2 * Len(rows) = Len(algorithms) * (Len(algorithms) - 1)
    /\ \A r \in DOMAIN rows : rows[r].Algorithm1 # rows[r].Algorithm2
    /\ \A pair \in UnorderedPairs :
          Cardinality({r \in DOMAIN rows :
                          {rows[r].Algorithm1, rows[r].Algorithm2} = pair}) = 1

\* C12: the pairwise Wilcoxon and Mann-Whitney comparisons are made, and their
\* files written, for exactly the metrics Kruskal-Wallis flagged (p below
\* sig_cutoff); for such a metric every unordered pair of distinct algorithms
\* has exactly one row, n(n-1)/2 rows in all.
C12_PairsOncePerFlaggedMetric ==
    PairwiseDone =>
        /\ DOMAIN wilcoxon_stats = FlaggedMetrics
        /\ DOMAIN mann_stats = FlaggedMetrics
        /\ \A m \in Range(metrics) :
              /\ ("training/results/KWMW/WilcoxonRank_" \o m \o ".csv" \in written)
                     <=> m \in FlaggedMetrics
              /\ ("training/results/KWMW/MannWhitneyU_" \o m \o ".csv" \in written)
                     <=> m \in FlaggedMetrics
        /\ \A m \in FlaggedMetrics :
              EachPairOnce(wilcoxon_stats[m]) /\ EachPairOnce(mann_stats[m])

C12_Witness ==
    /\ PairwiseDone
    /\ Len(algorithms) = 3
    /\ FlaggedMetrics # {} /\ FlaggedMetrics # Range(metrics)
    /\ \A m \in FlaggedMetrics : Len(wilcoxon_stats[m]) = 3 /\ Len(mann_stats[m]) = 3

\* the metrics file of the i-th algorithm, or the test file, of fold k is missing
Absent(i, k) ==
    \/ k + 1 \notin DOMAIN pickled[abbrev[preparation(encoded_algos)[i]]]
    \/ k + 1 \notin DOMAIN testHeaders

\* the reads of primaryStats that find no file
AbsentReads ==
    {r \in (DOMAIN preparation(encoded_algos)) \X (0..(cv_partitions - 1)) :
        Absent(r[1], r[2])}

\* the outputs of job() that come after primaryStats
LaterOutputs ==
    {"training/results/Summary_MeanAUC.png",
     "training/results/Summary_performance_mean.csv",
     "training/results/Summary_performance_std.csv",
     "training/results/performanceBoxplots/", "training/results/KWMW/",
     "training/results/KWMW/KruskalWallis.csv", "training/results/FI/boxplots/",
     ComparePlot("Norm"), ComparePlot("Norm_Frac"), ComparePlot("Norm_Weight"),
     ComparePlot("Norm_Frac_Weight"), "runtime/runtime_Stats.txt", "runtimes.csv",
     "jobsCompleted/job_stats.txt"}

\* the job never reads past a missing file, and stops where it is
StopsAtMissingRead ==
    (primary_metric \in DOMAIN metric_term_dict /\ AbsentReads # {}) =>
        /\ pc \in {"start", "primaryStats", "raised"}
        /\ written \cap LaterOutputs = {}
        /\ pc # "start" =>
              \A r \in AbsentReads :
                  algIndex < r[1] \/ (algIndex = r[1] /\ cvCount <= r[2])
        /\ pc = "raised" =>
              /\ error = "FileNotFoundError"
              /\ <<algIndex, cvCount>> \in AbsentReads

\* no step removes an output or changes a saved FI file
OutputsKept ==
    /\ written \subseteq written'
    /\ \A f \in DOMAIN fiCsv : f \in DOMAIN fiCsv' /\ fiCsv'[f] = fiCsv[f]

\* C13: when the metrics file or the test file of any (algorithm, fold) is
\* missing, the job raises at the first such read: no later fold or algorithm
\* is processed, no summary, significance or composite output and no
\* completion marker is written, and what was written before stays as it was.
C13_MissingFileAborts == [](StopsAtMissingRead) /\ [][OutputsKept]_vars

C13_Witness ==
    /\ pc = "raised"
    /\ error = "FileNotFoundError"
    /\ algIndex = 2 /\ cvCount = 1
    /\ Absent(2, 1) /\ ~Absent(2, 0)
    /\ {"training/results/NB_performance.csv", "training/results/FI/NB_FI.csv",
        "training/results/DT_CV_0_ConfusionMatrixPlot.png"} \subseteq written
    /\ "training/results/DT_performance.csv" \notin written

\* the metric names job() recognizes
RecognizedNames ==
    {"balanced_accuracy", "confusion_matrix", "roc_auc", "matthews_corrcoef",
     "plot_confusion_matrix"}

\* C15: a primary_metric that is not a recognized metric name makes job()
\* fail before any other step: the results directory is not created, no
\* metrics file is read and no output is written.
C15_UnknownMetricFailsFirst ==
    primary_metric \notin RecognizedNames =>
        /\ pc \in {"start", "raised"}
        /\ pc = "raised" => error = "KeyError"
        /\ written = {}
        /\ algorithms = <<>> /\ original_headers = <<>>
        /\ cvCount = 0 /\ s_bac = <<>> /\ FI_all = <<>>
        /\ metric_dict = <<>> /\ fiCsv = <<>>

C15_Witness ==
    /\ primary_metric = "Balanced Accuracy"
    /\ pc = "raised" /\ error = "KeyError"
    /\ DOMAIN pickled # {} /\ written = {}

\* C14: with cv_partitions < 2 the job fails with an insufficient-samples
\* error that comes from the summary-of-std export only: the summary of means
\* has been exported with a row for every algorithm, and the error is raised
\* once the std export has begun.
C14_StdevOnlyInStdExport ==
    (cv_partitions < 2 /\ pc = "raised" /\ error = "StatisticsError") =>
        /\ DOMAIN meanCsv = Range(algorithms)
        /\ "training/results/Summary_performance_std.csv" \in written

\* bottoms holds, for every algorithm after the first, the sum of the rows of
\* the algorithms below it, feature by feature
StackedOn(fi_list) ==
    /\ Len(bottoms) = Len(fi_list) - 1
    /\ \A i \in 2..Len(fi_list) :
          \A c \in DOMAIN fi_list[i] :
              bottoms[i - 1][c] = Sum([j \in 1..(i - 1) |-> fi_list[j][c]])

\* C16: in every call of composite_FI_plot the base of the bar of each
\* algorithm after the first is the sum of the values of the algorithms below
\* it for that feature; the bases are computed for every matrix the job plots.
C16_StackedBases ==
    /\ pc = "fracFI" => StackedOn(top_fi_ave_norm_list)
    /\ pc = "weightFI" => StackedOn(fracLists)
    /\ pc = "weightFracFI" => StackedOn(weightedLists)
    /\ pc \in {"saveRuntime", "done"} => StackedOn(weightedFracLists)
    /\ error # "UFuncTypeError"

\* the feature columns of a test file, in the file's order
FeatureColumns(cols) ==
    LET IsFeature(c) == c \notin LabelColumns
    IN  SelectSeq(cols, IsFeature)

\* the header cols keeps every original feature, and row holds the scores fi
\* feature for feature by name: the entry at a feature's original index is the
\* score at the feature's index among the file's feature columns
RoundTrip(row, cols, fi) ==
    Range(FeatureNames) \subseteq Range(cols) =>
        /\ Len(row) = Len(fi)
        /\ \A i \in 1..Len(FeatureNames) :
              \E p \in DOMAIN fi :
                  FeatureColumns(cols)[p] = FeatureNames[i] /\ row[i] = fi[p]

\* C17: when a fold's header holds every feature of OriginalFeatureList, in
\* any order, the reconciled row is the fold's raw FI vector feature for
\* feature by name, and no entry is filled with 0.
C17_FullHeaderRoundTrip ==
    /\ \A ab \in DOMAIN fiCsv : \A k \in DOMAIN fiCsv[ab].rows :
          RoundTrip(fiCsv[ab].rows[k], testHeaders[k], pickled[ab][k].fi)
    /\ (pc = "primaryStats" /\ cvCount > 0) =>
          \A k \in 1..cvCount :
              RoundTrip(FI_all[k], testHeaders[k],
                        pickled[abbrev[algorithms[algIndex]]][k].fi)

\* a fold that kept every feature in an order other than the original one,
\* behind an instance column, has been reconciled and saved
C17_Witness ==
    \E ab \in DOMAIN fiCsv : \E k \in DOMAIN fiCsv[ab].rows :
        /\ instance_label # "None"
        /\ Range(FeatureNames) \subseteq Range(testHeaders[k])
        /\ FeatureColumns(testHeaders[k]) # FeatureNames
        /\ fiCsv[ab].rows[k] # pickled[ab][k].fi
        /\ \A i \in 1..Len(FeatureNames) : fiCsv[ab].rows[k][i] # Zero

\* the i-th original feature is in the header of no fold
AbsentEverywhere(i) ==
    \A k \in 1..cv_partitions : FeatureNames[i] \notin Range(testHeaders[k])

\* C18: a feature that is absent from the header of every fold has the
\* average 0 and the normalized average 0 for every algorithm, whatever the
\* fold count and the scores of the other features.
C18_AbsentFeatureIsZero ==
    \A i \in 1..Len(FeatureNames) :
        AbsentEverywhere(i) =>
            /\ \A a \in DOMAIN fi_ave_list : fi_ave_list[a][i] = Zero
            /\ \A a \in DOMAIN fi_ave_norm_list : fi_ave_norm_list[a][i] = Zero
            /\ pc = "doPlotMeanAUC" => FI_ave[i] = Zero

\* prepFI has run over two algorithms and more than two folds that all
\* dropped one feature and gave the others scores above 0
C18_Witness ==
    /\ pc = "selectForViz"
    /\ cv_partitions > 2
    /\ Len(algorithms) = 2
    /\ \E i, j \in 1..Len(FeatureNames) :
          /\ AbsentEverywhere(i)
          /\ i < j
          /\ \A a \in DOMAIN fi_ave_list :
                RLt(Zero, fi_ave_list[a][j]) /\ fi_ave_norm_list[a][j] = One

\* weightFracFI has returned and its matrix has been plotted
WeightFractionated == pc \in {"saveRuntime", "done"}

\* C19: the normalized, fractionated and weighted matrix is weights[i] *
\* fracLists[i][j] for every algorithm i and feature column j, with the
\* weights weightFI returned; a row sums to the algorithm's weight w(i) when
\* its normalized vector is not all zero, and is all zero otherwise.
C19_WeightedFractions ==
    WeightFractionated =>
        /\ DOMAIN weightedFracLists = DOMAIN fracLists
        /\ \A i \in DOMAIN weightedFracLists :
              /\ DOMAIN weightedFracLists[i] = DOMAIN fracLists[i]
              /\ \A j \in DOMAIN fracLists[i] :
                    weightedFracLists[i][j] = RMul(weights[i], fracLists[i][j])
              /\ IF \E j \in DOMAIN top_fi_ave_norm_list[i] :
                        top_fi_ave_norm_list[i][j] # Zero
                 THEN Sum(weightedFracLists[i]) = W(i)
                 ELSE \A j \in DOMAIN weightedFracLists[i] :
                          weightedFracLists[i][j] = Zero

\* two algorithms, one with a weight strictly between 0 and 1 and two scores
\* above 0, the other with no score above 0
C19_Witness ==
    /\ WeightFractionated
    /\ Len(algorithms) = 2
    /\ \E i \in DOMAIN weightedFracLists :
          /\ RLt(Zero, W(i)) /\ RLt(W(i), One)
          /\ \E j, k \in DOMAIN weightedFracLists[i] :
                j # k /\ weightedFracLists[i][j] # Zero /\ weightedFracLists[i][k] # Zero
    /\ \E i \in DOMAIN weightedFracLists :
          /\ weightedFracLists[i] # <<>>
          /\ \A j \in DOMAIN top_fi_ave_norm_list[i] : top_fi_ave_norm_list[i][j] = Zero

\* C20: fracFI, weightFI and weightFracFI leave their inputs as they were:
\* the mean-metric list, the normalized top-feature matrix, the fractionated
\* matrix and the weights hold the same values after each call as before.
C20_TransformsArePure ==
    [][/\ pc = "fracFI" => top_fi_ave_norm_list' = top_fi_ave_norm_list
       /\ pc = "weightFI" =>
             /\ ave_metric_list' = ave_metric_list
             /\ top_fi_ave_norm_list' = top_fi_ave_norm_list
       /\ pc = "weightFracFI" => fracLists' = fracLists /\ weights' = weights]_vars

\* getFI_To_Viz_Sorted has returned
VizReady == pc \in {"fracFI", "weightFI", "weightFracFI", "saveRuntime", "done"}

\* the names L label the columns of the matrix M: one row per algorithm, one
\* column per name of featuresToViz, each value the algorithm's normalized
\* average of the feature the column is labeled with
Aligned(L, M) ==
    /\ Len(M) = Len(algorithms)
    /\ Len(L) = Len(featuresToViz)
    /\ Range(L) = Range(featuresToViz)
    /\ \A i \in 1..Len(algorithms) :
          /\ Len(M[i]) = Len(featuresToViz)
          /\ \A j \in DOMAIN L :
                M[i][j] = fi_ave_norm_list[i][IndexOf(FeatureNames, L[j])]

=============================================================================
